---------------------------- MODULE Spec2Model ----------------------------
(***************************************************************************)
(* The epidemic widget <app-el> (class App): five sliders drive a          *)
(* two-compartment Markov chain whose daily values are pushed to a line    *)
(* chart.                                                                  *)
(*                                                                         *)
(* Numbers.  The program computes with JavaScript numbers (IEEE doubles).  *)
(* Here a number is an exact rational [n |-> numerator, d |-> denominator] *)
(* in lowest terms with d > 0: rounding of the order of 1e-16 per          *)
(* operation is not modelled.  The sliders for the two probabilities have  *)
(* step 0.01, so a probability is k/100.                                   *)
(*                                                                         *)
(* Days.  The entries of the d-th power of the matrix have denominator     *)
(* 100^d; MAX_DAYS is scaled down from the program's 32 so that every      *)
(* numerator stays inside TLC's 32-bit integers.                           *)
(***************************************************************************)
EXTENDS Integers, Sequences, FiniteSets, TLC

VARIABLES
    infectionProbability,   \* @state, a number in [0,1]
    recoveryProbability,    \* @state, a number in [0,1]
    initialInfected,        \* @state
    initialRecovered,       \* @state
    days,                   \* @state, an integer in 0..MAX_DAYS
    chart,                  \* "undefined" or "Chart" (chart?: Chart)
    chartConfig,            \* chartConfig.data, the object the Chart shares
    canvas,                 \* what the Chart drew last ("blank" before any draw)
    hasUpdated,             \* LitElement.hasUpdated
    isUpdatePending,        \* LitElement.isUpdatePending
    changedProperties,      \* keys of the PropertyValues map of the pending update
    expression,             \* <katex-expr>.expression, as its sequence of tokens
    error                   \* the unhandled error of the last update, or "none"

vars == <<infectionProbability, recoveryProbability, initialInfected,
          initialRecovered, days, chart, chartConfig, canvas, hasUpdated,
          isUpdatePending, changedProperties, expression, error>>

-----------------------------------------------------------------------------
(* Bounds and slider ranges *)

\* const MAX_DAYS = 32 in the program; scaled down (see the header).
MAX_DAYS == 2

\* Slider positions the model draws from, in units of the slider's step.
ProbabilitySteps == {0, 3, 5, 50, 97, 100}     \* of 0..100, step 0.01
PopulationSteps == {0, 1, 100}                 \* of 0..100, step 1
DaysSteps == 0..MAX_DAYS                       \* of 0..MAX_DAYS, step 1

-----------------------------------------------------------------------------
(* JavaScript numbers, as exact rationals *)

RECURSIVE GCD(_, _)
GCD(a, b) == IF b = 0 THEN a ELSE GCD(b, a % b)

AbsInt(k) == IF k < 0 THEN -k ELSE k

\* The number n/d (d > 0), in lowest terms.
Rat(n, d) == LET g == GCD(AbsInt(n), d) IN [n |-> n \div g, d |-> d \div g]

Num(k) == [n |-> k, d |-> 1]

\* a + b
Plus(a, b) ==
    LET l == (a.d \div GCD(a.d, b.d)) * b.d
    IN  Rat(a.n * (l \div a.d) + b.n * (l \div b.d), l)

\* a - b
Minus(a, b) == Plus(a, [n |-> -b.n, d |-> b.d])

\* a * b
Times(a, b) ==
    LET g1 == GCD(AbsInt(a.n), b.d)
        g2 == GCD(AbsInt(b.n), a.d)
    IN  Rat((a.n \div g1) * (b.n \div g2), (a.d \div g2) * (b.d \div g1))

\* a > b
Greater(a, b) == Minus(a, b).n > 0

\* Math.abs
MathAbs(a) == [n |-> AbsInt(a.n), d |-> a.d]

\* Number(e.target.value) of a range input at position k with the given step
\* denominator (step = 1/stepDen).
SliderValue(k, stepDen) == Rat(k, stepDen)

-----------------------------------------------------------------------------
(* mathjs: matrix, multiply, pow *)

\* multiply(A, B) for 2x2 matrices
multiply(A, B) ==
    << << Plus(Times(A[1][1], B[1][1]), Times(A[1][2], B[2][1])),
          Plus(Times(A[1][1], B[1][2]), Times(A[1][2], B[2][2])) >>,
       << Plus(Times(A[2][1], B[1][1]), Times(A[2][2], B[2][1])),
          Plus(Times(A[2][1], B[1][2]), Times(A[2][2], B[2][2])) >> >>

\* multiply(A, v) for a 2x2 matrix and a vector of size 2: a vector of size 2
multiplyVector(A, v) ==
    << Plus(Times(A[1][1], v[1]), Times(A[1][2], v[2])),
       Plus(Times(A[2][1], v[1]), Times(A[2][2], v[2])) >>

\* multiply(v, A) for a 1x2 matrix and a 2x2 matrix: a 1x2 matrix
multiplyRow(v, A) ==
    << Plus(Times(v[1], A[1][1]), Times(v[2], A[2][1])),
       Plus(Times(v[1], A[1][2]), Times(v[2], A[2][2])) >>

identity2 == << <<Num(1), Num(0)>>, <<Num(0), Num(1)>> >>

\* The loop of mathjs' pow for a square matrix and an integer y >= 0:
\*   while (y >= 1) { if ((y & 1) === 1) res = multiply(px, res);
\*                    y >>= 1; px = multiply(px, px) }
RECURSIVE powLoop(_, _, _)
powLoop(res, px, y) ==
    IF y >= 1
    THEN powLoop(IF y % 2 = 1 THEN multiply(px, res) ELSE res,
                 multiply(px, px),
                 y \div 2)
    ELSE res

\* A less careful pow: the odd bit of the exponent is dropped.
powNoOddBit(x, y) == powLoop(identity2, x, 2 * (y \div 2))

\* pow(x, y)
pow(x, y) == powLoop(identity2, x, y)

-----------------------------------------------------------------------------
(* App.infectedAtDay *)

\* The transition matrix with its second column wrong (r twice).
transitionMatrixBadColumn(infectionProb, recoveryProb) ==
    << << Minus(Num(1), infectionProb), recoveryProb >>,
       << infectionProb,                recoveryProb >> >>

\* The transition matrix transposed, still applied to a column vector.
transitionMatrixTransposed(infectionProb, recoveryProb) ==
    << << Minus(Num(1), infectionProb), infectionProb >>,
       << recoveryProb, Minus(Num(1), recoveryProb) >> >>

\* The transition matrix with the two probabilities exchanged.
transitionMatrixExchanged(infectionProb, recoveryProb) ==
    << << Minus(Num(1), recoveryProb), infectionProb >>,
       << recoveryProb, Minus(Num(1), infectionProb) >> >>

transitionMatrix(infectionProb, recoveryProb) ==
    << << Minus(Num(1), infectionProb), recoveryProb >>,
       << infectionProb, Minus(Num(1), recoveryProb) >> >>

initialStateMatrix == <<initialRecovered, initialInfected>>

\* finalStateMatrix with the power one day short.
finalStateMatrixDayShort(day, infectionProb, recoveryProb) ==
    multiplyVector(pow(transitionMatrix(infectionProb, recoveryProb), day - 1),
                   initialStateMatrix)

finalStateMatrix(day, infectionProb, recoveryProb) ==
    multiplyVector(pow(transitionMatrix(infectionProb, recoveryProb), day),
                   initialStateMatrix)

\* The tolerance of the conservation check, 0.1
Tolerance == Rat(1, 10)

\* infectedAtDay throws: |total - expectedTotal| > 0.1
infectedAtDayThrows(day, infectionProb, recoveryProb) ==
    LET f == finalStateMatrix(day, infectionProb, recoveryProb)
        infected == f[1]
        recovered == f[2]
        expectedTotal == Plus(initialInfected, initialRecovered)
        total == Plus(infected, recovered)
        diff == Minus(total, expectedTotal)
    IN  Greater(MathAbs(diff), Tolerance)

\* infectedAtDay returning its two locals in their order of computation.
infectedAtDayUnswapped(day, infectionProb, recoveryProb) ==
    LET f == finalStateMatrix(day, infectionProb, recoveryProb)
    IN  <<f[1], f[2]>>

\* What infectedAtDay returns when it does not throw: [recovered, infected],
\* the locals named infected = get([0]) and recovered = get([1]).
infectedAtDay(day, infectionProb, recoveryProb) ==
    LET f == finalStateMatrix(day, infectionProb, recoveryProb)
        infected == f[1]
        recovered == f[2]
    IN  <<recovered, infected>>

-----------------------------------------------------------------------------
(* App.infectedAtDay of the earlier revision (src/app.ts): the matrix is the *)
(* transpose, applied to the row vector [initialInfected, initialRecovered] *)

chain(infectionProb, recoveryProb) ==
    << << Minus(Num(1), infectionProb), infectionProb >>,
       << recoveryProb, Minus(Num(1), recoveryProb) >> >>

\* [nInfected, nRecovered]
infectedAtDayEarlier(day) ==
    multiplyRow(<<initialInfected, initialRecovered>>,
                pow(chain(infectionProbability, recoveryProbability), day))

-----------------------------------------------------------------------------
(* App.updated and the chart *)

\* The labels one short: Array.from({ length: n }, ...)
dayLabelsOneShort(n) == [i \in 1..n |-> ToString(i - 1)]

\* Array.from({ length: 1 + n }, (_, i) => String(i))
dayLabels(n) == [i \in 1..(1 + n) |-> ToString(i - 1)]

\* The groups computed backwards from the last day: entry i is the state
\* (days - i) days before the end of the window.
infectionsGroupsFromEnd ==
    [i \in 1..(1 + days) |->
        infectedAtDay(days - (i - 1), infectionProbability, recoveryProbability)]

\* Array.from({ length: 1 + this.days }, (_, i) => this.infectedAtDay(i, ...))
infectionsGroups ==
    [i \in 1..(1 + days) |->
        infectedAtDay(i - 1, infectionProbability, recoveryProbability)]

\* Some call of infectedAtDay made by updated throws.
updatedThrows ==
    \E i \in 0..days :
        infectedAtDayThrows(i, infectionProbability, recoveryProbability)

\* chart.data after the body of `if (this.chart) { ... }`
pushToChart(data) ==
    LET infectedData == [i \in 1..Len(infectionsGroups) |-> infectionsGroups[i][1]]
        recoveredData == [i \in 1..Len(infectionsGroups) |-> infectionsGroups[i][2]]
    IN  [data EXCEPT !.labels = dayLabels(days),
                     !.datasets[1].data = infectedData,
                     !.datasets[2].data = recoveredData]

\* this.chart as updated() would find it were the Chart created only after
\* updated() has run.
chartCreatedAfterUpdated == chart

\* this.chart as updated() finds it: firstUpdated(), which creates the Chart,
\* runs before updated() in the element's first update.
chartSeenByUpdated == IF hasUpdated THEN chart ELSE "Chart"

-----------------------------------------------------------------------------
(* App.formula *)

\* Math.round-like rounding of a number to the nearest integer, halves away
\* from zero (the rounding of Intl.NumberFormat).
roundHalfExpand(a) ==
    IF a.n >= 0 THEN (2 * a.n + a.d) \div (2 * a.d)
    ELSE -((2 * (-a.n) + a.d) \div (2 * a.d))

\* x.toLocaleString(undefined, { style: "percent" }).replace(/%/g, "\\%")
\* in a locale that writes percentages as digits followed by "%" (en-US); no
\* fraction digits; values below 1000 %, which have no grouping separator.
percentTex(x) == ToString(roundHalfExpand(Times(x, Num(100)))) \o "\\%"

\* formula() with the rows of the earlier revision: 1-p & p, 1-r & r.
formulaEarlierRows ==
    LET notInfected == Minus(Num(1), infectionProbability)
        notRecovered == Minus(Num(1), recoveryProbability)
    IN  << "\\begin{bmatrix}",
           percentTex(notInfected), "&", percentTex(infectionProbability), "\\\\",
           percentTex(notRecovered), "&", percentTex(recoveryProbability),
           "\\end{bmatrix}^n",
           "\\begin{bmatrix}", "x", "\\\\", "y", "\\end{bmatrix}",
           "=",
           "\\begin{bmatrix}", "x'", "\\\\", "y'", "\\end{bmatrix}" >>

\* formula(): the template's tokens in order, white space left out.
formula ==
    LET notInfected == Minus(Num(1), infectionProbability)
        notRecovered == Minus(Num(1), recoveryProbability)
        notInfectedPercent == percentTex(notInfected)
        notRecoveredPercent == percentTex(notRecovered)
        infectionPercent == percentTex(infectionProbability)
        recoveryPercent == percentTex(recoveryProbability)
    IN  << "\\begin{bmatrix}",
           notInfectedPercent, "&", recoveryPercent, "\\\\",
           infectionPercent, "&", notRecoveredPercent,
           "\\end{bmatrix}^n",
           "\\begin{bmatrix}", "x", "\\\\", "y", "\\end{bmatrix}",
           "=",
           "\\begin{bmatrix}", "x'", "\\\\", "y'", "\\end{bmatrix}" >>

-----------------------------------------------------------------------------
(* The state machine *)

StateProperties ==
    {"infectionProbability", "recoveryProbability", "initialInfected",
     "initialRecovered", "days", "infectedData", "recoveredData"}

Init ==
    /\ infectionProbability = Rat(3, 100)
    /\ recoveryProbability = Rat(5, 100)
    /\ initialInfected = Num(1)
    /\ initialRecovered = Num(100)
    /\ days = MAX_DAYS \div 2
    /\ chart = "undefined"
    /\ chartConfig =
          [labels |-> dayLabels(MAX_DAYS \div 2),
           datasets |-> << [label |-> "Infected", data |-> <<>>],
                           [label |-> "Recovered", data |-> <<>>] >>]
    /\ canvas = "blank"
    /\ hasUpdated = FALSE
    /\ isUpdatePending = TRUE
    /\ changedProperties = StateProperties
    /\ expression = <<>>
    /\ error = "none"

\* A property setter of a @state field: the value is stored and an update is
\* requested.  An input event is a task of its own, and the update requested
\* by the previous one has run (as a microtask) before it is dispatched.
requestUpdate(name) ==
    /\ isUpdatePending' = TRUE
    /\ changedProperties' = changedProperties \cup {name}
    /\ UNCHANGED <<chart, chartConfig, canvas, hasUpdated, expression, error>>

\* sliders[0].onChange(Number(e.target.value))
onChangeInfectionProbability ==
    /\ ~isUpdatePending
    /\ \E k \in ProbabilitySteps :
          /\ SliderValue(k, 100) # infectionProbability
          /\ infectionProbability' = SliderValue(k, 100)
    /\ requestUpdate("infectionProbability")
    /\ UNCHANGED <<recoveryProbability, initialInfected, initialRecovered, days>>

\* sliders[1].onChange(Number(e.target.value))
onChangeRecoveryProbability ==
    /\ ~isUpdatePending
    /\ \E k \in ProbabilitySteps :
          /\ SliderValue(k, 100) # recoveryProbability
          /\ recoveryProbability' = SliderValue(k, 100)
    /\ requestUpdate("recoveryProbability")
    /\ UNCHANGED <<infectionProbability, initialInfected, initialRecovered, days>>

\* sliders[2].onChange(Number(e.target.value))
onChangeInitialInfected ==
    /\ ~isUpdatePending
    /\ \E k \in PopulationSteps :
          /\ SliderValue(k, 1) # initialInfected
          /\ initialInfected' = SliderValue(k, 1)
    /\ requestUpdate("initialInfected")
    /\ UNCHANGED <<infectionProbability, recoveryProbability, initialRecovered, days>>

\* sliders[3].onChange(Number(e.target.value))
onChangeInitialRecovered ==
    /\ ~isUpdatePending
    /\ \E k \in PopulationSteps :
          /\ SliderValue(k, 1) # initialRecovered
          /\ initialRecovered' = SliderValue(k, 1)
    /\ requestUpdate("initialRecovered")
    /\ UNCHANGED <<infectionProbability, recoveryProbability, initialInfected, days>>

\* sliders[4].onChange(Number(e.target.value))
onChangeDays ==
    /\ ~isUpdatePending
    /\ \E k \in DaysSteps :
          /\ k # days
          /\ days' = k
    /\ requestUpdate("days")
    /\ UNCHANGED <<infectionProbability, recoveryProbability, initialInfected,
                   initialRecovered>>

\* chart.data after an update in which infectedAtDay has thrown, were the
\* labels assigned before the groups are computed.
chartDataAfterThrowLabelsFirst(data) == [data EXCEPT !.labels = dayLabels(days)]

\* chart.data after an update in which infectedAtDay has thrown: the error
\* leaves updated() from inside Array.from, before `if (this.chart)`.
chartDataAfterThrow(data) == data

\* One update of the element: render() hands formula() to <katex-expr>, then
\* firstUpdated() the first time (new Chart draws chartConfig), then updated().  `throws` says whether a call of
\* infectedAtDay throws; the error is not caught and the update is over.
updateStep(throws) ==
    /\ isUpdatePending
    /\ expression' = formula
    /\ chart' = chartSeenByUpdated
    /\ IF throws
       THEN /\ error' = "Total is not 100"
            /\ chartConfig' = chartDataAfterThrow(chartConfig)
            /\ canvas' = IF hasUpdated THEN canvas ELSE chartConfig
       ELSE /\ error' = "none"
            /\ chartConfig' = IF chartSeenByUpdated = "undefined"
                              THEN chartConfig
                              ELSE pushToChart(chartConfig)
            /\ canvas' = IF chartSeenByUpdated = "undefined"
                         THEN canvas
                         ELSE pushToChart(chartConfig)
    /\ hasUpdated' = TRUE
    /\ isUpdatePending' = FALSE
    /\ changedProperties' = {}
    /\ UNCHANGED <<infectionProbability, recoveryProbability, initialInfected,
                   initialRecovered, days>>

\* The update with the conservation check decided by the exact arithmetic.
performUpdate == updateStep(updatedThrows)

Next ==
    \/ onChangeInfectionProbability
    \/ onChangeRecoveryProbability
    \/ onChangeInitialInfected
    \/ onChangeInitialRecovered
    \/ onChangeDays
    \/ performUpdate

Spec == Init /\ [][Next]_vars

-----------------------------------------------------------------------------
(* The state machine with the conservation check able to fail.              *)
(* In exact arithmetic the total is conserved for every p and r, so the     *)
(* check of infectedAtDay never fails under Spec.  The check guards against *)
(* what exact arithmetic leaves out (rounding in the doubles) and against a *)
(* defect in the matrix; here its outcome is left open.  The behaviours of  *)
(* Spec over the sampled slider positions are behaviours of SpecInexact.    *)

\* The slider positions sampled under SpecInexact.
SampledParameters ==
    /\ infectionProbability \in {Rat(3, 100), Rat(1, 2), Num(1)}
    /\ recoveryProbability \in {Rat(5, 100), Rat(1, 2)}
    /\ initialInfected \in {Num(1), Num(100)}
    /\ initialRecovered \in {Num(0), Num(100)}

\* The update, with the check of line 172 failing in the doubles or not.
performUpdateInexact ==
    \E checkFails \in BOOLEAN : updateStep(updatedThrows \/ checkFails)

NextInexact ==
    \/ onChangeInfectionProbability /\ SampledParameters'
    \/ onChangeRecoveryProbability /\ SampledParameters'
    \/ onChangeInitialInfected /\ SampledParameters'
    \/ onChangeInitialRecovered /\ SampledParameters'
    \/ onChangeDays
    \/ performUpdateInexact

SpecInexact == Init /\ [][NextInexact]_vars

-----------------------------------------------------------------------------
(* Vocabulary of the properties *)

\* The last update has run and nothing is pending.
Settled == hasUpdated /\ ~isUpdatePending

\* The two plotted series, by their dataset label.
InfectedSeries == chartConfig.datasets[1].data
RecoveredSeries == chartConfig.datasets[2].data

\* infectedAtDay(d) with the current parameters: <<Infected, Recovered>> as plotted.
AtDay(d) == infectedAtDay(d, infectionProbability, recoveryProbability)

\* |a - b| <= 0.1
WithinTolerance(a, b) == ~Greater(MathAbs(Minus(a, b)), Tolerance)

InUnitInterval(a) == a.n >= 0 /\ a.n <= a.d

Half == Rat(1, 2)

\* The parameters of the concrete scenario: p = 0.03, r = 0.05, 1 infected,
\* 100 healthy/recovered.
Scenario ==
    /\ infectionProbability = Rat(3, 100)
    /\ recoveryProbability = Rat(5, 100)
    /\ initialInfected = Num(1)
    /\ initialRecovered = Num(100)

\* Both probabilities strictly inside (0,1) and different from each other.
GenericProbabilities ==
    /\ infectionProbability.d > 1
    /\ recoveryProbability.d > 1
    /\ infectionProbability # recoveryProbability

-----------------------------------------------------------------------------
(* C1 *)

-----------------------------------------------------------------------------
(* C2 *)

\* C2: infectedAtDay(0) returns <<initialInfected, initialRecovered>> for all
\* parameters, and after a recomputation the first point of the "Infected"
\* series is initialInfected and the first point of the "Recovered" series is
\* initialRecovered.
C2_DayZero ==
    /\ AtDay(0) = <<initialInfected, initialRecovered>>
    /\ Settled =>
          /\ chartConfig.datasets[1].label = "Infected"
          /\ chartConfig.datasets[2].label = "Recovered"
          /\ InfectedSeries[1] = initialInfected
          /\ RecoveredSeries[1] = initialRecovered

\* The chart shows day 0 of an uneven split under probabilities that move
\* people from day 1 on.
C2_Witness ==
    /\ Settled
    /\ days >= 1
    /\ GenericProbabilities
    /\ initialInfected = Num(1)
    /\ initialRecovered = Num(100)
    /\ InfectedSeries[1] = Num(1)
    /\ InfectedSeries[2] # Num(1)

-----------------------------------------------------------------------------
(* C3 *)

\* C3 as stated: in the scenario, day 1 is infected = 5.97 and
\* healthy/recovered = 95.03.
C3_AsStated ==
    (Scenario /\ Settled /\ days >= 1) =>
        /\ AtDay(1) = <<Rat(597, 100), Rat(9503, 100)>>
        /\ InfectedSeries[2] = Rat(597, 100)
        /\ RecoveredSeries[2] = Rat(9503, 100)

\* C3, amended: in the scenario (p = 0.03, r = 0.05, 1 infected, 100
\* healthy/recovered), day 1 is infected = 100*0.03 + 1*(1-0.05) = 3.95 and
\* healthy/recovered = 100*(1-0.03) + 1*0.05 = 97.05, and these are the second
\* points of the two plotted series.
C3_Scenario ==
    Scenario =>
        /\ AtDay(1) = <<Rat(395, 100), Rat(9705, 100)>>
        /\ (Settled /\ days >= 1) =>
              /\ InfectedSeries[2] = Rat(395, 100)
              /\ RecoveredSeries[2] = Rat(9705, 100)

\* The scenario has been plotted for at least one day.
C3_Witness ==
    /\ Scenario
    /\ Settled
    /\ days >= 1
    /\ Len(InfectedSeries) >= 2
    /\ Plus(InfectedSeries[2], RecoveredSeries[2]) = Num(101)

-----------------------------------------------------------------------------
(* C4 *)

\* C4: for every parameter setting and every day d < MAX_DAYS, with
\* healthy(d) and infected(d) the values of day d, the Infected value of day
\* d+1 is p * healthy(d) + (1-r) * infected(d) and the Recovered value is
\* (1-p) * healthy(d) + r * infected(d); the plotted series obey the same
\* recurrence.
C4_OneDay ==
    LET p == infectionProbability
        r == recoveryProbability
        StepInfected(infected, healthy) ==
            Plus(Times(p, healthy), Times(Minus(Num(1), r), infected))
        StepRecovered(infected, healthy) ==
            Plus(Times(Minus(Num(1), p), healthy), Times(r, infected))
    IN  /\ \A d \in 0..(MAX_DAYS - 1) :
              /\ AtDay(d + 1)[1] = StepInfected(AtDay(d)[1], AtDay(d)[2])
              /\ AtDay(d + 1)[2] = StepRecovered(AtDay(d)[1], AtDay(d)[2])
        /\ Settled =>
              \A i \in 1..days :
                  /\ InfectedSeries[i + 1] =
                        StepInfected(InfectedSeries[i], RecoveredSeries[i])
                  /\ RecoveredSeries[i + 1] =
                        StepRecovered(InfectedSeries[i], RecoveredSeries[i])

\* Two transitions have been plotted under generic probabilities from an
\* uneven split.
C4_Witness ==
    /\ Settled
    /\ days >= 2
    /\ GenericProbabilities
    /\ initialInfected # initialRecovered
    /\ InfectedSeries[3] # InfectedSeries[2]
    /\ InfectedSeries[2] # InfectedSeries[1]

-----------------------------------------------------------------------------
(* C5 *)

\* Each row of M sums to 1 and every entry lies in [0,1].
RowStochastic(M) ==
    /\ \A i \in 1..2 : \A j \in 1..2 : InUnitInterval(M[i][j])
    /\ \A i \in 1..2 : Plus(M[i][1], M[i][2]) = Num(1)

\* Each column of M sums to 1 and every entry lies in [0,1].
ColumnStochastic(M) ==
    /\ \A i \in 1..2 : \A j \in 1..2 : InUnitInterval(M[i][j])
    /\ \A j \in 1..2 : Plus(M[1][j], M[2][j]) = Num(1)

\* C5 as stated: the matrix infectedAtDay constructs is row-stochastic.
C5_AsStated ==
    hasUpdated =>
        RowStochastic(transitionMatrix(infectionProbability, recoveryProbability))

\* C5, amended: the matrix infectedAtDay constructs from p and r is
\* column-stochastic: all four entries lie in [0,1] and each column sums to
\* exactly 1; its rows sum to 1 exactly when p = r.
C5_ColumnStochastic ==
    LET M == transitionMatrix(infectionProbability, recoveryProbability)
    IN  /\ ColumnStochastic(M)
        /\ RowStochastic(M) <=> infectionProbability = recoveryProbability

\* infectedAtDay has built the matrix for generic probabilities.
C5_Witness ==
    /\ Settled
    /\ GenericProbabilities
    /\ error = "none"
    /\ Len(InfectedSeries) = days + 1

-----------------------------------------------------------------------------
(* C6 *)

\* C6: with p = 1 and r = 1, for every initial state and every day d, the
\* result is the initial state when d is even and the initial state with the
\* two compartments swapped when d is odd, and so are the plotted points.
C6_FullSwap ==
    (infectionProbability = Num(1) /\ recoveryProbability = Num(1)) =>
        /\ \A d \in 0..MAX_DAYS :
              AtDay(d) = IF d % 2 = 0
                         THEN <<initialInfected, initialRecovered>>
                         ELSE <<initialRecovered, initialInfected>>
        /\ Settled =>
              \A i \in 1..(days + 1) :
                  <<InfectedSeries[i], RecoveredSeries[i]>> =
                      IF (i - 1) % 2 = 0
                      THEN <<initialInfected, initialRecovered>>
                      ELSE <<initialRecovered, initialInfected>>

\* An uneven split has been plotted over an odd and a later even day with
\* p = r = 1.
C6_Witness ==
    /\ Settled
    /\ infectionProbability = Num(1)
    /\ recoveryProbability = Num(1)
    /\ initialInfected = Num(1)
    /\ initialRecovered = Num(100)
    /\ days >= 2
    /\ InfectedSeries[2] = Num(100)
    /\ InfectedSeries[3] = Num(1)

-----------------------------------------------------------------------------
(* C7 *)

\* C7: with p = 0.5 and r = 0.5, for every initial split and every day
\* d >= 1, each compartment is exactly half of initialInfected +
\* initialRecovered, and so are the plotted points from day 1 on.
C7_Midpoint ==
    (infectionProbability = Half /\ recoveryProbability = Half) =>
        LET half == Times(Half, Plus(initialInfected, initialRecovered))
        IN  /\ \A d \in 1..MAX_DAYS : AtDay(d) = <<half, half>>
            /\ Settled =>
                  \A i \in 2..(days + 1) :
                      /\ InfectedSeries[i] = half
                      /\ RecoveredSeries[i] = half

\* An uneven split with an odd total has been plotted for two days with
\* p = r = 0.5.
C7_Witness ==
    /\ Settled
    /\ infectionProbability = Half
    /\ recoveryProbability = Half
    /\ initialInfected = Num(1)
    /\ initialRecovered = Num(100)
    /\ days >= 2
    /\ InfectedSeries[1] = Num(1)
    /\ InfectedSeries[3] = Rat(101, 2)

-----------------------------------------------------------------------------
(* C8 *)

\* C8: a recomputation whose only changed property is days, raised from D1
\* to D2 >= D1, leaves the infected and the recovered value of every day
\* 0..D1 as the previous recomputation plotted them.
C8_MonotonicConsistency ==
    [][ ( /\ isUpdatePending /\ ~isUpdatePending'
          /\ chart = "Chart"
          /\ error = "none"
          /\ changedProperties = {"days"}
          /\ days >= Len(InfectedSeries) - 1 )
        => /\ Len(InfectedSeries') = days + 1
           /\ Len(RecoveredSeries') = days + 1
           /\ \A i \in 1..Len(InfectedSeries) :
                 /\ InfectedSeries'[i] = InfectedSeries[i]
                 /\ RecoveredSeries'[i] = RecoveredSeries[i] ]_vars

\* days has just been raised over a plotted window of at least two days, with
\* parameters under which the days differ, and the recomputation is due.
C8_Witness ==
    /\ isUpdatePending
    /\ chart = "Chart"
    /\ error = "none"
    /\ changedProperties = {"days"}
    /\ Len(InfectedSeries) >= 2
    /\ days > Len(InfectedSeries) - 1
    /\ GenericProbabilities
    /\ InfectedSeries[1] # InfectedSeries[2]

-----------------------------------------------------------------------------
(* C9 *)

\* C9: after every recomputation the chart holds three lists of length
\* days + 1: the labels "0", "1", ..., "days" in ascending order, and the two
\* series, whose entry i is the value of day i.
C9_SequenceShape ==
    Settled =>
        /\ Len(chartConfig.labels) = days + 1
        /\ Len(InfectedSeries) = days + 1
        /\ Len(RecoveredSeries) = days + 1
        /\ \A i \in 0..days :
              /\ chartConfig.labels[i + 1] = ToString(i)
              /\ InfectedSeries[i + 1] = AtDay(i)[1]
              /\ RecoveredSeries[i + 1] = AtDay(i)[2]

\* A recomputation has run for a window longer than the one the chart was
\* configured with.
C9_Witness ==
    /\ Settled
    /\ days = MAX_DAYS
    /\ days > MAX_DAYS \div 2
    /\ chartConfig.labels[days + 1] = ToString(MAX_DAYS)
    /\ initialInfected # initialRecovered

-----------------------------------------------------------------------------
(* C10 *)

\* The chart data for the current parameters.
CurrentChartData ==
    [labels |-> [i \in 1..(days + 1) |-> ToString(i - 1)],
     datasets |->
        << [label |-> "Infected",
            data |-> [i \in 1..(days + 1) |-> AtDay(i - 1)[1]]],
           [label |-> "Recovered",
            data |-> [i \in 1..(days + 1) |-> AtDay(i - 1)[2]]] >>]

\* C10: once the update triggered by the latest input event has run (the
\* first update included), the Chart exists, its labels and both datasets are
\* exactly the sequence for days 0..days of the current parameter values, and
\* that is what it has drawn.
C10_NoStaleData ==
    Settled =>
        /\ chart = "Chart"
        /\ chartConfig = CurrentChartData
        /\ canvas = CurrentChartData

\* All five parameters differ from their initial values, the window is
\* shorter than the initial one, and the update has run.
C10_Witness ==
    /\ Settled
    /\ infectionProbability # Rat(3, 100)
    /\ recoveryProbability # Rat(5, 100)
    /\ initialInfected # Num(1)
    /\ initialRecovered # Num(100)
    /\ days < MAX_DAYS \div 2
    /\ Len(chartConfig.labels) = days + 1

-----------------------------------------------------------------------------
(* The earlier revision *)

\* In the earlier revision the scenario's day 1 is infected = 5.97 and
\* recovered = 95.03, and the matrix is row-stochastic: there an infected
\* individual leaves at rate p and a recovered one returns at rate r.
EarlierRevision ==
    /\ RowStochastic(chain(infectionProbability, recoveryProbability))
    /\ Scenario => infectedAtDayEarlier(1) = <<Rat(597, 100), Rat(9503, 100)>>
    /\ infectedAtDayEarlier(0) = <<initialInfected, initialRecovered>>

-----------------------------------------------------------------------------
(* C11 *)

\* C11: an update in which the conservation check raises ends with the error
\* unhandled and no update pending (nothing retries it: the next update is
\* the one the next input event requests), and leaves the chart's labels and
\* datasets and what the chart has drawn as they were; the chart data change
\* only in an update that raises nothing, after which they are the whole
\* sequence of the current parameters.
C11_ViolationAborts ==
    /\ [][ /\ (isUpdatePending /\ ~isUpdatePending' /\ error' # "none") =>
                 /\ chartConfig' = chartConfig
                 /\ hasUpdated => (canvas' = canvas /\ chart' = chart)
                 /\ changedProperties' = {}
           /\ (error # "none" /\ ~isUpdatePending) =>
                 (chartConfig' = chartConfig /\ isUpdatePending')
           /\ chartConfig' # chartConfig =>
                 (isUpdatePending /\ error' = "none") ]_vars
    /\ [](Settled /\ error = "none" => chartConfig = CurrentChartData)

\* A recomputation has been aborted after a successful one: the chart still
\* holds the earlier sequence, which is not the sequence of the current
\* parameters.
C11_Witness ==
    /\ Settled
    /\ error # "none"
    /\ Len(InfectedSeries) >= 2
    /\ Len(chartConfig.labels) = Len(InfectedSeries)
    /\ Len(chartConfig.labels) # days + 1
    /\ canvas = chartConfig
    /\ chartConfig # CurrentChartData

-----------------------------------------------------------------------------
(* C12 *)

\* The four entries of the first matrix of an expression, by row.
DisplayedMatrix(e) == << <<e[2], e[4]>>, <<e[6], e[8]>> >>

\* C12: for every p and r, once the update has run, the four entries of the
\* matrix in the displayed expression are, position by position, the entries
\* of the transition matrix that infectedAtDay raises to the power of the
\* day, written as percentages (which for slider values loses nothing): row 1
\* is 1-p, r and row 2 is p, 1-r in both.
C12_FormulaMatchesMatrix ==
    LET M == transitionMatrix(infectionProbability, recoveryProbability)
    IN  /\ \A i \in 1..2 : \A j \in 1..2 :
              /\ DisplayedMatrix(formula)[i][j] = percentTex(M[i][j])
              /\ Times(M[i][j], Num(100)).d = 1
        /\ Settled =>
              /\ expression = formula
              /\ expression[1] = "\\begin{bmatrix}"
              /\ expression[3] = "&" /\ expression[5] = "\\\\"
              /\ expression[7] = "&" /\ expression[9] = "\\end{bmatrix}^n"
              /\ \A i \in 1..2 : \A j \in 1..2 :
                    DisplayedMatrix(expression)[i][j] = percentTex(M[i][j])

\* The expression is displayed for probabilities whose four entries are all
\* different.
C12_Witness ==
    /\ Settled
    /\ infectionProbability = Rat(3, 100)
    /\ recoveryProbability = Rat(5, 100)
    /\ DisplayedMatrix(expression) = << <<"97\\%", "5\\%">>, <<"3\\%", "95\\%">> >>

=============================================================================
